---- MODULE Spec2Model ----
(***************************************************************************)
(* A model of translate.py, the XLIFF translator: one run of               *)
(* process_xlf_file (parse, resolve the locale, analyse, confirm, collect, *)
(* translate in batches, write), the files it reads and writes, and the    *)
(* translation oracle it calls.                                            *)
(*                                                                         *)
(* A text is a sequence of one-character strings.  An element of the       *)
(* document is a record [present, text]; text = << >> stands for both      *)
(* None and '' of ElementTree, which the code never tells apart (it only   *)
(* tests `not x.text` and `if el.text`).                                   *)
(*                                                                         *)
(* A document is the sequence of its trans-units, each with its resname    *)
(* attribute, its source and its target; the elements around them (xliff,  *)
(* file, body), the other attributes and the white space between elements  *)
(* are written back as they were read and are left out.  A file is the     *)
(* same sequence with every text as it is spelled in the file, so that     *)
(* writing (format_element) and reading (ET.parse) are the conversions     *)
(* the code performs.  An interrupt from the keyboard and a failure of the *)
(* file system while writing are not modelled.                             *)
(***************************************************************************)
EXTENDS Naturals, Sequences, FiniteSets

\* ------------------------------------------------------------------ bounds

\* The longest document, in translation units.
MaxUnits == 23

\* The longest document of the runs that vary the file name and the locale.
MaxLocaleUnits == 1

\* ------------------------------------------------------------------- texts

BATCH_SIZE == 10

Letters ==
  << "a", "b", "c", "d", "e", "f", "g", "h", "i", "j", "k", "l", "m",
     "n", "o", "p", "q", "r", "s", "t", "u", "v", "w", "x", "y", "z" >>

\* A letter that names a position (unit k, call j, line k).
Glyph(k) == Letters[(k % 26) + 1]

\* str.isspace on one character.
IsSpaceChar(c) == c \in {" ", "\n", "\t", "\r"}

\* str.isspace: at least one character, and all of them whitespace.
isspace(t) == Len(t) > 0 /\ \A i \in 1..Len(t) : IsSpaceChar(t[i])

\* `c in t`
Contains(t, c) == \E i \in 1..Len(t) : t[i] = c

\* t[i:].startswith(p), i from 1
StartsWithAt(t, i, p) ==
  /\ i + Len(p) - 1 <= Len(t)
  /\ \A k \in 1..Len(p) : t[i + k - 1] = p[k]

CDATA_OPEN == << "<", "!", "[", "C", "D", "A", "T", "A", "[" >>
CDATA_CLOSE == << "]", "]", ">" >>

\* f'<![CDATA[{t}]]>'
WrapCdata(t) == CDATA_OPEN \o t \o CDATA_CLOSE

\* '<' in t or '>' in t
HasAngle(t) == Contains(t, "<") \/ Contains(t, ">")

\* An absent element or attribute.
Absent == [present |-> FALSE, text |-> << >>]
Elem(t) == [present |-> TRUE, text |-> t]

\* ------------------------------------------------------------ html.unescape

Digits == {"0", "1", "2", "3", "4", "5", "6", "7", "8", "9"}

\* The character of a decimal code point.  The code points the model's texts
\* can spell are listed; any other is some character that is neither
\* whitespace nor markup, written "?".
CharOfCode(ds) ==
  CASE ds = << "3", "2" >> -> " "
    [] ds = << "3", "8" >> -> "&"
    [] ds = << "6", "0" >> -> "<"
    [] ds = << "6", "2" >> -> ">"
    [] OTHER -> "?"

\* The names of html.entities.html5 the model's texts can spell, each with
\* and without its semicolon as html5 lists them.
NamedEntities ==
  { [name |-> << "l", "t", ";" >>, char |-> "<"],
    [name |-> << "l", "t" >>, char |-> "<"],
    [name |-> << "g", "t", ";" >>, char |-> ">"],
    [name |-> << "g", "t" >>, char |-> ">"],
    [name |-> << "a", "m", "p", ";" >>, char |-> "&"],
    [name |-> << "a", "m", "p" >>, char |-> "&"] }

\* The number of digits of t from position i on.
RECURSIVE DigitRun(_, _)
DigitRun(t, i) ==
  IF i <= Len(t) /\ t[i] \in Digits THEN 1 + DigitRun(t, i + 1) ELSE 0

\* html.unescape(t)[from position i]: a decimal reference &#d+;? becomes its
\* character, a named reference becomes the character of the longest name of
\* html5 that starts it, any other '&' stays.
RECURSIVE UnescapeFrom(_, _)
UnescapeFrom(t, i) ==
  IF i > Len(t) THEN << >>
  ELSE IF t[i] # "&" THEN << t[i] >> \o UnescapeFrom(t, i + 1)
  ELSE IF i + 1 <= Len(t) /\ t[i + 1] = "#" /\ DigitRun(t, i + 2) > 0
  THEN LET d == DigitRun(t, i + 2)
           semi == IF i + 2 + d <= Len(t) /\ t[i + 2 + d] = ";" THEN 1 ELSE 0
       IN  << CharOfCode(SubSeq(t, i + 2, i + 1 + d)) >>
             \o UnescapeFrom(t, i + 2 + d + semi)
  ELSE LET m == {e \in NamedEntities : StartsWithAt(t, i + 1, e.name)}
       IN  IF m = {} THEN << "&" >> \o UnescapeFrom(t, i + 1)
           ELSE LET e == CHOOSE x \in m : \A y \in m : Len(y.name) <= Len(x.name)
                IN  << e.char >> \o UnescapeFrom(t, i + 1 + Len(e.name))

unescape(t) == UnescapeFrom(t, 1)

\* --------------------------------------------- the XML parser (ET.parse)

\* The first position >= i where CDATA_CLOSE starts, or 0.
RECURSIVE FindClose(_, _)
FindClose(s, i) ==
  IF i > Len(s) THEN 0
  ELSE IF StartsWithAt(s, i, CDATA_CLOSE) THEN i
  ELSE FindClose(s, i + 1)

\* The reference that starts at position i of s (s[i] = "&"), as XML reads
\* it: [ok, char, len].  XML knows lt, gt and amp (and quot, apos, which the
\* model's texts cannot spell) and character references, each only with its
\* semicolon; anything else is not well-formed.
XmlReference(s, i) ==
  LET d == DigitRun(s, i + 2)
      m == {e \in NamedEntities :
              /\ e.name[Len(e.name)] = ";"
              /\ StartsWithAt(s, i + 1, e.name)}
  IN  IF /\ i + 1 <= Len(s) /\ s[i + 1] = "#" /\ d > 0
         /\ i + 2 + d <= Len(s) /\ s[i + 2 + d] = ";"
      THEN [ok |-> TRUE, char |-> CharOfCode(SubSeq(s, i + 2, i + 1 + d)),
            len |-> d + 3]
      ELSE IF m # {}
      THEN LET e == CHOOSE x \in m : TRUE
           IN  [ok |-> TRUE, char |-> e.char, len |-> Len(e.name) + 1]
      ELSE [ok |-> FALSE, char |-> "&", len |-> 1]

\* The character data of an element whose serialized content is s, read from
\* position i with acc read so far: [status, text].  A CDATA section gives
\* its characters as they are, up to the first "]]>"; a reference gives its
\* character; "]]>" outside a section and a bare '&' are not well-formed.  A
\* '<' that starts anything but a CDATA section starts a child element:
\* status "markup" (the documents of the model hold no child elements inside
\* source or target, see NoChildMarkup).
RECURSIVE ParseFrom(_, _, _)
ParseFrom(s, i, acc) ==
  IF i > Len(s) THEN [status |-> "ok", text |-> acc]
  ELSE IF StartsWithAt(s, i, CDATA_OPEN)
  THEN LET c == FindClose(s, i + Len(CDATA_OPEN))
       IN  IF c = 0 THEN [status |-> "error", text |-> acc]
           ELSE ParseFrom(s, c + Len(CDATA_CLOSE),
                          acc \o SubSeq(s, i + Len(CDATA_OPEN), c - 1))
  ELSE IF s[i] = "<" THEN [status |-> "markup", text |-> acc]
  ELSE IF StartsWithAt(s, i, CDATA_CLOSE) THEN [status |-> "error", text |-> acc]
  ELSE IF s[i] = "&"
  THEN LET r == XmlReference(s, i)
       IN  IF r.ok THEN ParseFrom(s, i + r.len, acc \o << r.char >>)
           ELSE [status |-> "error", text |-> acc]
  ELSE ParseFrom(s, i + 1, acc \o << s[i] >>)

ParseContent(s) == ParseFrom(s, 1, << >>)

\* The value of an attribute written as v between double quotes: [status,
\* text].  A '<', a '"' and a bare '&' are not well-formed there.
RECURSIVE ParseAttrFrom(_, _, _)
ParseAttrFrom(v, i, acc) ==
  IF i > Len(v) THEN [status |-> "ok", text |-> acc]
  ELSE IF v[i] \in {"<", "\""} THEN [status |-> "error", text |-> acc]
  ELSE IF v[i] = "&"
  THEN LET r == XmlReference(v, i)
       IN  IF r.ok THEN ParseAttrFrom(v, i + r.len, acc \o << r.char >>)
           ELSE [status |-> "error", text |-> acc]
  ELSE ParseAttrFrom(v, i + 1, acc \o << v[i] >>)

ParseAttr(v) == ParseAttrFrom(v, 1, << >>)

\* ------------------------------------------------- str.join, strip, split

\* sep.join(lines)
RECURSIVE Join(_, _)
Join(lines, sep) ==
  IF Len(lines) = 0 THEN << >>
  ELSE IF Len(lines) = 1 THEN lines[1]
  ELSE lines[1] \o << sep >> \o Join(Tail(lines), sep)

RECURSIVE LStrip(_)
LStrip(t) == IF Len(t) > 0 /\ IsSpaceChar(t[1]) THEN LStrip(Tail(t)) ELSE t

RECURSIVE RStrip(_)
RStrip(t) ==
  IF Len(t) > 0 /\ IsSpaceChar(t[Len(t)])
  THEN RStrip(SubSeq(t, 1, Len(t) - 1))
  ELSE t

\* t.strip()
Strip(t) == RStrip(LStrip(t))

\* t.split(sep), read from position i with cur the piece being read: the
\* pieces between the separators, one more than there are separators.
RECURSIVE SplitFrom(_, _, _, _)
SplitFrom(t, sep, i, cur) ==
  IF i > Len(t) THEN << cur >>
  ELSE IF t[i] = sep THEN << cur >> \o SplitFrom(t, sep, i + 1, << >>)
  ELSE SplitFrom(t, sep, i + 1, cur \o << t[i] >>)

Split(t, sep) == SplitFrom(t, sep, 1, << >>)

\* str.lower on the characters a response to the prompt can hold.
Lower(t) == [k \in 1..Len(t) |-> IF t[k] = "Y" THEN "y" ELSE t[k]]

\* ----------------------------------------------------------- file names

\* The last position of c in t, or 0.
RECURSIVE RFind(_, _, _)
RFind(t, c, i) ==
  IF i = 0 THEN 0 ELSE IF t[i] = c THEN i ELSE RFind(t, c, i - 1)

\* The number of c at the start of t.
RECURSIVE LeadingRun(_, _)
LeadingRun(t, c) ==
  IF Len(t) > 0 /\ t[1] = c THEN 1 + LeadingRun(Tail(t), c) ELSE 0

\* Path(name).stem for a name without directories: the name up to its last
\* dot, unless that dot is its first or its last character.
Stem(name) ==
  LET p == RFind(name, ".", Len(name))
  IN  IF 1 < p /\ p < Len(name) THEN SubSeq(name, 1, p - 1) ELSE name

\* os.path.splitext(name)[0]: the name up to its last dot, unless only dots
\* come before that dot.
SplitextRoot(name) ==
  LET p == RFind(name, ".", Len(name))
  IN  IF p > LeadingRun(name, ".") + 1 THEN SubSeq(name, 1, p - 1) ELSE name

\* extract_language_from_filename with `len(parts) >= 1`: a stem without a
\* dot is taken for the locale.
extract_language_any_stem(filename) ==
  LET parts == Split(Stem(filename), ".")
  IN  IF Len(parts) >= 1 THEN Elem(parts[Len(parts)]) ELSE Absent

extract_language_from_filename(filename) ==
  LET parts == Split(Stem(filename), ".")
  IN  IF Len(parts) >= 2 THEN Elem(parts[Len(parts)]) ELSE Absent

\* `not x` for an optional string: None or ''.
Falsy(x) == ~x.present \/ Len(x.text) = 0

\* The output file of a run.
OutputName(input_file, inline) ==
  IF inline THEN input_file
  ELSE SplitextRoot(input_file)
         \o << "_", "t", "r", "a", "n", "s", "l", "a", "t", "e", "d",
               ".", "x", "l", "f" >>

\* ---------------------------------------------------------- the document

\* `target is None or not target.text or target.text.isspace()`
Untranslated(unit) ==
  ~unit.target.present \/ Len(unit.target.text) = 0 \/ isspace(unit.target.text)

\* The units analyze_strings counts: those with a resname.
Counted(unit) == ~Falsy(unit.resname)

\* The loop of analyze_strings from unit i on, with the counts so far.
RECURSIVE AnalyzeFrom(_, _, _)
AnalyzeFrom(d, i, st) ==
  IF i > Len(d) THEN st
  ELSE IF ~Counted(d[i]) THEN AnalyzeFrom(d, i + 1, st)
  ELSE IF Untranslated(d[i])
  THEN AnalyzeFrom(d, i + 1,
         [st EXCEPT !.total = @ + 1, !.untranslated = @ + 1])
  ELSE AnalyzeFrom(d, i + 1,
         [st EXCEPT !.total = @ + 1, !.translated = @ + 1])

analyze_strings(d) ==
  AnalyzeFrom(d, 1, [total |-> 0, untranslated |-> 0, translated |-> 0])

\* The units the worklist takes: those with a source text, all of them under
\* force and the untranslated ones otherwise.
Selected(unit, force) ==
  /\ unit.source.present /\ Len(unit.source.text) > 0
  /\ force \/ Untranslated(unit)

\* trans_units, as the positions of the units in the document, in order.
RECURSIVE CollectUnits(_, _, _)
CollectUnits(d, i, force) ==
  IF i > Len(d) THEN << >>
  ELSE (IF Selected(d[i], force) THEN << i >> ELSE << >>)
         \o CollectUnits(d, i + 1, force)

\* The write gate without `or force`.
WriteGateNoForce(text, force) == Len(text) = 0 \/ isspace(text)

\* `not target.text or target.text.isspace() or force`
WriteGate(text, force) == Len(text) = 0 \/ isspace(text) \/ force

\* The text a translation is stored as.
Stored(translation) ==
  IF HasAngle(translation) THEN WrapCdata(translation) ELSE translation

\* One turn of the loop over zip(batch_units, translations).
CommitUnit(unit, translation, force) ==
  LET target == IF unit.target.present THEN unit.target ELSE Elem(<< >>)
  IN  [unit EXCEPT !.target =
         IF WriteGate(target.text, force) THEN Elem(Stored(translation))
         ELSE target]

Min(a, b) == IF a <= b THEN a ELSE b

\* The document after the loop over zip(batch_units, translations).
CommitBatch(d, batch_units, translations, force) ==
  LET m == Min(Len(batch_units), Len(translations))
  IN  [u \in 1..Len(d) |->
         IF \E k \in 1..m : batch_units[k] = u
         THEN CommitUnit(d[u],
                translations[CHOOSE k \in 1..m : batch_units[k] = u], force)
         ELSE d[u]]

\* ---------------------------------------------------- reading and writing

\* The text of a target element as format_element writes it.
TargetContent(text) ==
  IF Len(text) = 0 THEN << >>
  ELSE LET t == unescape(text)
       IN  IF HasAngle(t) THEN WrapCdata(t) ELSE t

\* format_element on a trans-unit: the attribute and the text of a source as
\* they are, the text of a target through TargetContent.
FormatUnit(unit) ==
  [resname |-> unit.resname,
   source |-> unit.source,
   target |-> [present |-> unit.target.present,
               text |-> TargetContent(unit.target.text)]]

write_with_cdata(d) ==
  [wellformed |-> TRUE, units |-> [u \in 1..Len(d) |-> FormatUnit(d[u])]]

ParseElem(e) ==
  IF e.present THEN Elem(ParseContent(e.text).text) ELSE Absent

ParseUnit(fu) ==
  [resname |-> IF fu.resname.present
               THEN Elem(ParseAttr(fu.resname.text).text) ELSE Absent,
   source |-> ParseElem(fu.source),
   target |-> ParseElem(fu.target)]

\* Whether the parser accepts a unit as written in a file.
UnitParses(fu) ==
  /\ fu.resname.present => ParseAttr(fu.resname.text).status = "ok"
  /\ fu.source.present => ParseContent(fu.source.text).status = "ok"
  /\ fu.target.present => ParseContent(fu.target.text).status = "ok"

\* ET.parse: [ok, doc].
ParseFile(file) ==
  IF file.wellformed /\ \A u \in 1..Len(file.units) : UnitParses(file.units[u])
  THEN [ok |-> TRUE, doc |-> [u \in 1..Len(file.units) |-> ParseUnit(file.units[u])]]
  ELSE [ok |-> FALSE, doc |-> << >>]

\* ------------------------------------------------------------- the oracle

\* What the model's oracle answers with, one kind per behaviour: a plain
\* line per request line, a line with markup per request line, a character
\* reference to a space per request line, or one plain line too few.
OracleKinds == {"plain", "markup", "space", "short"}

\* The line the oracle of kind `kind` returns for line k of call j.
OracleLine(kind, j, k) ==
  CASE kind = "markup" ->
         << "<", "b", ">", Glyph(j), Glyph(k), "<", "/", "b", ">" >>
    [] kind = "space" -> << "&", "#", "3", "2", ";" >>
    [] OTHER -> << "t", Glyph(j), Glyph(k) >>

\* The lines the oracle returns to call j, a request of n lines.
OracleLines(kind, j, n) ==
  [k \in 1..(IF kind = "short" THEN n - 1 ELSE n) |-> OracleLine(kind, j, k)]

\* translate_batch: None when the call raised, else
\* response.choices[0].message.content.strip().split('\n')
translate_batch(reply) ==
  IF reply.raised THEN [none |-> TRUE, lines |-> << >>]
  ELSE [none |-> FALSE, lines |-> Split(Strip(Join(reply.lines, "\n")), "\n")]

\* ------------------------------------------------------------- the inputs

StringsFrXlf ==
  << "s", "t", "r", "i", "n", "g", "s", ".", "f", "r", ".", "x", "l", "f" >>
StringsXlf == << "s", "t", "r", "i", "n", "g", "s", ".", "x", "l", "f" >>
StringsDotXlf == << "s", "t", "r", "i", "n", "g", "s", ".", ".", "x", "l", "f" >>
DotXlf == << ".", "x", "l", "f" >>

FileNames == {StringsFrXlf, StringsXlf, StringsDotXlf, DotXlf}

\* --language: not given, given empty, given.
Languages == {Absent, Elem(<< >>), Elem(<< "e", "s" >>)}

\* What the user types at the prompt.
Responses == {<< "y" >>, << "Y" >>, << "n" >>, << >>, << "y", "e", "s" >>}

BHiB == << "<", "b", ">", "h", "i", "<", "/", "b", ">" >>

UnitKinds ==
  << "new", "done", "blank", "noname", "empty", "nosource", "markup",
     "nonamedone" >>

\* Unit k of an input file, by kind: "new" has a resname, a source and no
\* target; "done" a translated target; "blank" a target of whitespace;
\* "empty" an empty target; "noname" is "new" without a resname; "nosource"
\* is "new" with an empty source; "markup" has a target holding <b>hi</b>
\* as a CDATA section; "nonamedone" is "done" without a resname.
FileUnit(kind, k) ==
  [resname |-> IF kind \in {"noname", "nonamedone"} THEN Absent
               ELSE Elem(<< "r", Glyph(k) >>),
   source |-> IF kind = "nosource" THEN Elem(<< >>) ELSE Elem(<< "s", Glyph(k) >>),
   target |-> CASE kind \in {"done", "nonamedone"} -> Elem(<< "o", Glyph(k) >>)
                [] kind = "blank" -> Elem(<< " " >>)
                [] kind = "empty" -> Elem(<< >>)
                [] kind = "markup" -> Elem(WrapCdata(BHiB))
                [] OTHER -> Absent]

DocPatterns == {"new", "done", "mixed", "malformed"}

\* An input file of n units: all untranslated, all translated, of every kind
\* in turn, or not well-formed.
InputFile(pattern, n) ==
  [wellformed |-> pattern # "malformed",
   units |-> [k \in 1..n |->
                FileUnit(IF pattern = "mixed"
                         THEN UnitKinds[((k - 1) % Len(UnitKinds)) + 1]
                         ELSE pattern, k)]]

\* --------------------------------------------------------------- the state

VARIABLES
  fs,            \* the files on disk: name -> file
  fs0,           \* the files on disk when the run started
  args,          \* input_file, target_lang, inline, force
  oracle,        \* how the oracle answers (a kind of OracleKinds)
  run,           \* "first" or "second" run of the tool
  pc,            \* where the run is
  doc,           \* the parsed tree: the trans-units in document order
  target_lang,   \* the resolved locale
  stats,         \* what analyze_strings returned
  announced,     \* strings_to_translate, as printed
  trans_units,   \* the worklist: positions in doc
  source_texts,  \* the worklist: source texts
  i,             \* the loop variable of the batch loop
  calls,         \* the oracle calls of this run: [target_lang, texts]
  replies,       \* the oracle's answer to each call: [raised, lines]
  translations,  \* what the last translate_batch returned: [none, lines]
  response,      \* what the user typed at the prompt
  error,         \* the exception that ended the run, "" when none did
  doc0,          \* the tree as ET.parse returned it
  first_doc      \* the tree the first run wrote, once the tool runs again

vars ==
  << fs, fs0, args, oracle, run, pc, doc, target_lang, stats, announced,
     trans_units, source_texts, i, calls, replies, translations, response,
     error, doc0, first_doc >>

NoStats == [total |-> 0, untranslated |-> 0, translated |-> 0]

\* None, as translate_batch returns it.
None == [none |-> TRUE, lines |-> << >>]

\* The state of a run at the entry of process_xlf_file.
Entry ==
  /\ pc = "parse"
  /\ doc = << >>
  /\ target_lang = Absent
  /\ stats = NoStats
  /\ announced = 0
  /\ trans_units = << >>
  /\ source_texts = << >>
  /\ i = 0
  /\ calls = << >>
  /\ replies = << >>
  /\ translations = None
  /\ response = Absent
  /\ error = ""
  /\ doc0 = << >>

Init ==
  \E n \in 0..MaxUnits, pattern \in DocPatterns, name \in FileNames,
     language \in Languages, inline \in BOOLEAN, force \in BOOLEAN,
     kind \in OracleKinds :
    /\ n <= MaxLocaleUnits \/ (name = StringsFrXlf /\ language = Absent)
    /\ pattern = "malformed" => n = 0
    /\ fs = [f \in {name} |-> InputFile(pattern, n)]
    /\ fs0 = fs
    /\ args = [input_file |-> name, target_lang |-> language,
               inline |-> inline, force |-> force]
    /\ oracle = kind
    /\ run = "first"
    /\ first_doc = << >>
    /\ Entry

\* tree = ET.parse(input_file)
Parse ==
  /\ pc = "parse"
  /\ LET r == ParseFile(fs[args.input_file])
     IN  IF r.ok THEN pc' = "locale" /\ doc' = r.doc /\ error' = error
         ELSE pc' = "failed" /\ doc' = doc /\ error' = "ParseError"
  /\ doc0' = doc'
  /\ UNCHANGED << fs, fs0, args, oracle, run, target_lang, stats, announced,
                  trans_units, source_texts, i, calls, replies, translations, response,
                  first_doc >>

\* The locale: the one given, else the one of the file name, else an error.
ResolveLocale ==
  /\ pc = "locale"
  /\ LET lang == IF Falsy(args.target_lang)
                 THEN extract_language_from_filename(args.input_file)
                 ELSE args.target_lang
     IN  IF Falsy(lang)
         THEN pc' = "failed" /\ target_lang' = target_lang
              /\ error' = "ValueError"
         ELSE pc' = "analyze" /\ target_lang' = lang /\ error' = error
  /\ UNCHANGED << fs, fs0, args, oracle, run, doc, stats, announced,
                  trans_units, source_texts, i, calls, replies, translations, response,
                  doc0, first_doc >>

\* analyze_strings, and the early return when nothing is untranslated.
Analyze ==
  /\ pc = "analyze"
  /\ stats' = analyze_strings(doc)
  /\ IF stats'.untranslated = 0 /\ ~args.force
     THEN pc' = "returned" /\ announced' = announced
     ELSE /\ pc' = "confirm"
          /\ announced' = IF args.force THEN stats'.total
                          ELSE stats'.untranslated
  /\ UNCHANGED << fs, fs0, args, oracle, run, doc, target_lang,
                  trans_units, source_texts, i, calls, replies, translations, response,
                  error, doc0, first_doc >>

\* The prompt taking anything but 'n' for a yes.
AffirmativeUnlessNo(typed) == Lower(typed) # << "n" >>

\* `response.lower() != 'y'`, negated
Affirmative(typed) == Lower(typed) = << "y" >>

\* The prompt: 'y' in either case goes on, anything else cancels, and the
\* end of the input raises.
Confirm ==
  /\ pc = "confirm"
  /\ \/ \E typed \in Responses :
          /\ response' = Elem(typed)
          /\ pc' = IF Affirmative(typed) THEN "collect" ELSE "cancelled"
          /\ error' = error
     \/ /\ response' = response
        /\ pc' = "failed"
        /\ error' = "EOFError"
  /\ UNCHANGED << fs, fs0, args, oracle, run, doc, target_lang, stats,
                  announced, trans_units, source_texts, i, calls, replies, translations,
                  doc0, first_doc >>

\* The loop that collects trans_units and source_texts.
Collect ==
  /\ pc = "collect"
  /\ trans_units' = CollectUnits(doc, 1, args.force)
  /\ source_texts' = [k \in 1..Len(trans_units') |->
                        doc[trans_units'[k]].source.text]
  /\ i' = 0
  /\ pc' = "batch"
  /\ UNCHANGED << fs, fs0, args, oracle, run, doc, target_lang, stats,
                  announced, calls, replies, translations, response, error, doc0,
                  first_doc >>

\* The slice one entry short: t[i:i + BATCH_SIZE - 1].
SliceOneShort(t, from) == SubSeq(t, from + 1, Min(from + BATCH_SIZE - 1, Len(t)))

\* t[i:i + BATCH_SIZE], i from 0
Slice(t, from) == SubSeq(t, from + 1, Min(from + BATCH_SIZE, Len(t)))

\* A failed call taken for an answer of one empty line, as
\* ''.strip().split('\n') gives.
AfterReplyEmptyAnswer(d, batch_units, result, force) ==
  CommitBatch(d, batch_units,
              IF result.none THEN << << >> >> ELSE result.lines, force)

\* `if translations:` and the loop over the zip: the tree is as it was when
\* translate_batch returned None (or an empty list).
AfterReply(d, batch_units, result, force) ==
  IF result.none \/ Len(result.lines) = 0 THEN d
  ELSE CommitBatch(d, batch_units, result.lines, force)

\* One turn of the batch loop: the call, which raises or answers, and the
\* loop over the answer.
TranslateBatch ==
  /\ pc = "batch"
  /\ i < Len(source_texts)
  /\ LET batch_texts == Slice(source_texts, i)
         batch_units == Slice(trans_units, i)
         lines == OracleLines(oracle, Len(calls), Len(batch_texts))
     IN  /\ calls' = Append(calls, [target_lang |-> target_lang.text,
                                    texts |-> batch_texts])
         /\ \/ replies' = Append(replies, [raised |-> TRUE, lines |-> << >>])
            \/ replies' = Append(replies, [raised |-> FALSE, lines |-> lines])
         /\ translations' = translate_batch(replies'[Len(replies')])
         /\ doc' = AfterReply(doc, batch_units, translations', args.force)
  /\ i' = i + BATCH_SIZE
  /\ UNCHANGED << fs, fs0, args, oracle, run, pc, target_lang, stats,
                  announced, trans_units, source_texts, response, error,
                  doc0, first_doc >>

\* The end of the loop: the tree is written to the output file.
Write ==
  /\ pc = "batch"
  /\ i >= Len(source_texts)
  /\ LET output_file == OutputName(args.input_file, args.inline)
     IN  fs' = [f \in DOMAIN fs \cup {output_file} |->
                  IF f = output_file THEN write_with_cdata(doc) ELSE fs[f]]
  /\ pc' = "done"
  /\ UNCHANGED << fs0, args, oracle, run, doc, target_lang, stats, announced,
                  trans_units, source_texts, i, calls, replies, translations, response,
                  error, doc0, first_doc >>

\* The tool is run again, on the file it wrote.
Rerun ==
  /\ pc = "done"
  /\ run = "first"
  /\ run' = "second"
  /\ \E force \in BOOLEAN :
       args' = [args EXCEPT
                  !.input_file = OutputName(args.input_file, args.inline),
                  !.force = force]
  /\ fs0' = fs
  /\ pc' = "parse"
  /\ doc' = << >>
  /\ target_lang' = Absent
  /\ stats' = NoStats
  /\ announced' = 0
  /\ trans_units' = << >>
  /\ source_texts' = << >>
  /\ i' = 0
  /\ calls' = << >>
  /\ replies' = << >>
  /\ translations' = None
  /\ response' = Absent
  /\ error' = ""
  /\ doc0' = << >>
  /\ first_doc' = doc
  /\ UNCHANGED << fs, oracle >>

Next ==
  \/ Parse
  \/ ResolveLocale
  \/ Analyze
  \/ Confirm
  \/ Collect
  \/ TranslateBatch
  \/ Write
  \/ Rerun

Spec == Init /\ [][Next]_vars

\* ------------------------------------------------------ notions of the claims

\* The file this run writes.
OutFile == OutputName(args.input_file, args.inline)

\* ceil(n / BATCH_SIZE)
NumBatches(n) == (n + BATCH_SIZE - 1) \div BATCH_SIZE

\* A translated unit: its target is present and its text holds at least one
\* character that is not whitespace.
Translated(unit) ==
  /\ unit.target.present
  /\ \E k \in 1..Len(unit.target.text) : ~IsSpaceChar(unit.target.text[k])

\* The run is past analyze_strings.
Analyzed ==
  \/ pc \in {"confirm", "returned", "cancelled", "collect", "batch", "done"}
  \/ pc = "failed" /\ error = "EOFError"

\* The run is past the resolution of the locale.
LocaleDecided == pc \notin {"parse", "locale"} /\ error # "ParseError"

\* The step is a turn of the batch loop.
BatchStep == pc = "batch" /\ Len(replies') = Len(replies) + 1

\* Every file of the model holds character data only inside its source and
\* target elements (an invariant of Spec), so ParseContent never has to read
\* a child element.
NoChildMarkup ==
  \A f \in DOMAIN fs : \A u \in 1..Len(fs[f].units) :
    /\ ParseContent(fs[f].units[u].source.text).status # "markup"
    /\ ParseContent(fs[f].units[u].target.text).status # "markup"

\* -------------------------------------------------------------- the claims

\* C1: in a confirmed run in which every oracle call succeeds and returns one
\* line per request line, once the output file is written and parsed again,
\* entry w of the worklist has as target text line ((w-1) mod 10)+1 of call
\* (w-1) div 10, also when the line holds '<' or '>'.
C1_EndToEndFill ==
  ( /\ pc = "done"
    /\ \A j \in 1..Len(replies) :
         ~replies[j].raised /\ Len(replies[j].lines) = Len(calls[j].texts) )
  => LET r == ParseFile(fs[OutFile])
     IN  /\ r.ok
         /\ \A w \in 1..Len(trans_units) :
              r.doc[trans_units[w]].target.text
                = replies[((w - 1) \div BATCH_SIZE) + 1]
                    .lines[((w - 1) % BATCH_SIZE) + 1]

\* C2: with force=false no turn of the batch loop changes the target of a unit
\* that is translated when the turn starts, so the targets translated in the
\* input and those earlier batches filled stay as they are; with force=true
\* every unit zipped with a returned line gets that line as its target text,
\* whatever the target held.
C2_WriteGate ==
  /\ [][ BatchStep =>
           LET m == IF translations'.none THEN 0
                    ELSE Min(Min(BATCH_SIZE, Len(trans_units) - i),
                             Len(translations'.lines))
           IN  /\ ~args.force =>
                    \A u \in 1..Len(doc) :
                      Translated(doc[u]) => doc'[u].target = doc[u].target
               /\ args.force =>
                    \A k \in 1..m :
                      doc'[trans_units[i + k]].target
                        = Elem(Stored(translations'.lines[k])) ]_vars
  /\ [](~args.force /\ pc \in {"batch", "done"} =>
          \A u \in 1..Len(doc0) :
            Translated(doc0[u]) => doc[u].target = doc0[u].target)

\* A run with force=false of two batches or more has ended: a unit that was
\* translated in the input is as it was, and a unit that was not is now.
C2_Witness ==
  /\ pc = "done" /\ ~args.force /\ Len(calls) >= 2
  /\ \E u \in 1..Len(doc0) : Translated(doc0[u]) /\ doc[u] = doc0[u]
  /\ \E v \in 1..Len(doc0) : ~Translated(doc0[v]) /\ Translated(doc[v])

\* C3: every target whose text in memory holds '<' or '>' when the tree is
\* written is written as one CDATA section of that text, and parsing what was
\* written gives that text back.
C3_MarkupRoundTrip ==
  pc = "done" =>
    \A u \in 1..Len(doc) :
      (doc[u].target.present /\ HasAngle(doc[u].target.text)) =>
        LET written == fs[OutFile].units[u].target.text
        IN  /\ written = WrapCdata(doc[u].target.text)
            /\ ParseContent(written)
                 = [status |-> "ok", text |-> doc[u].target.text]

\* C4: a run with force=false on a document whose units are all translated
\* issues no oracle call, and so does a second run with force=false on the
\* output of a first run that left every unit translated.
C4_Idempotence ==
  /\ ( /\ ~args.force /\ pc # "parse" /\ error # "ParseError"
       /\ \A u \in 1..Len(doc0) : Translated(doc0[u]) )
     => calls = << >>
  /\ ( /\ run = "second" /\ ~args.force
       /\ \A u \in 1..Len(first_doc) : Translated(first_doc[u]) )
     => calls = << >>

\* C5: a turn of the batch loop whose call raises leaves the tree and the files
\* as they were and moves on to the next batch without an error; the batch loop
\* is left only by writing the output file, after one call per batch.
C5_OracleFailurePerBatch ==
  /\ [][ (BatchStep /\ replies'[Len(replies')].raised) =>
           /\ doc' = doc
           /\ fs' = fs
           /\ pc' = "batch"
           /\ error' = ""
           /\ i' = i + BATCH_SIZE
           /\ calls' = Append(calls, [target_lang |-> target_lang.text,
                                      texts |-> Slice(source_texts, i)]) ]_vars
  /\ [][ pc = "batch" =>
           /\ pc' \in {"batch", "done"}
           /\ error' = ""
           /\ pc' = "done" =>
                /\ OutFile \in DOMAIN fs'
                /\ fs'[OutFile].units = [u \in 1..Len(doc) |-> FormatUnit(doc[u])]
                /\ Len(calls) = NumBatches(Len(trans_units)) ]_vars

\* The first call of a run raised, the second answered, the run wrote its
\* output, and a unit of the first batch still has no target.
C5_Witness ==
  /\ pc = "done" /\ error = "" /\ OutFile \in DOMAIN fs
  /\ Len(replies) >= 2 /\ replies[1].raised /\ ~replies[2].raised
  /\ \E k \in 1..BATCH_SIZE : ~doc[trans_units[k]].target.present
  /\ Translated(doc[trans_units[BATCH_SIZE + 1]])

\* C6: an oracle call was issued or a file was written only if the prompt got
\* 'y' or 'Y'; a run that was cancelled or that failed (no locale, no parse)
\* ends with no oracle call and every file as it was when the run started.
C6_ConfirmationGate ==
  /\ (calls # << >> \/ fs # fs0) =>
       response.present /\ Lower(response.text) = << "y" >>
  /\ pc \in {"cancelled", "failed"} => calls = << >> /\ fs = fs0

\* An in-place run with untranslated units was cancelled by the answer 'n'.
C6_Witness ==
  /\ pc = "cancelled" /\ args.inline /\ response = Elem(<< "n" >>)
  /\ stats.untranslated > 0
  /\ calls = << >> /\ fs = fs0

\* C7: the calls of a run are the consecutive chunks of ten of the worklist:
\* call j carries the source texts of entries 10(j-1)+1 .. min(10j, n), the run
\* has issued one call per ten entries passed, and ceil(n/10) calls when it
\* writes, whether calls raised or not.
C7_BatchPartition ==
  pc \in {"batch", "done"} =>
    /\ Len(replies) = Len(calls)
    /\ Len(source_texts) = Len(trans_units)
    /\ i = BATCH_SIZE * Len(calls)
    /\ Len(calls) <= NumBatches(Len(trans_units))
    /\ pc = "done" => Len(calls) = NumBatches(Len(trans_units))
    /\ \A j \in 1..Len(calls) :
         LET first == BATCH_SIZE * (j - 1)
         IN  /\ Len(calls[j].texts) = Min(BATCH_SIZE, Len(trans_units) - first)
             /\ \A k \in 1..Len(calls[j].texts) :
                  calls[j].texts[k] = doc0[trans_units[first + k]].source.text

\* A worklist of 23 entries went out in calls of 10, 10 and 3, the second of
\* which raised.
C7_Witness ==
  /\ pc = "done" /\ Len(trans_units) = 23 /\ Len(calls) = 3
  /\ Len(calls[1].texts) = 10 /\ Len(calls[2].texts) = 10
  /\ Len(calls[3].texts) = 3
  /\ replies[2].raised

\* C8: after the analysis translated + untranslated = total, the units counted
\* as translated are the units with a translated target, and the tree is as it
\* was parsed.
C8_AnalyzerCounts ==
  Analyzed =>
    /\ stats.translated + stats.untranslated = stats.total
    /\ stats.translated
         = Cardinality({u \in 1..Len(doc0) : Translated(doc0[u])})
    /\ pc \in {"confirm", "returned"} => doc = doc0

\* C9: a locale given on the command line is the locale of the run; without
\* one the locale is the last dot-separated segment of the stem of the file
\* name (fr for strings.fr.xlf), and a stem without such a segment
\* (strings.xlf) ends the run with an error, exit status 1 and no oracle call.
C9_LocaleResolution ==
  LET given == args.target_lang.present /\ Len(args.target_lang.text) > 0
      parts == Split(Stem(args.input_file), ".")
      named == Len(parts) >= 2 /\ Len(parts[Len(parts)]) > 0
  IN  LocaleDecided =>
        /\ given => error # "ValueError" /\ target_lang = args.target_lang
        /\ (~given /\ named) =>
             error # "ValueError" /\ target_lang.text = parts[Len(parts)]
        /\ (~given /\ ~named) =>
             pc = "failed" /\ error = "ValueError" /\ calls = << >>
        /\ (~given /\ args.input_file = StringsFrXlf) =>
             target_lang.text = << "f", "r" >>
        /\ (~given /\ args.input_file = StringsXlf) =>
             pc = "failed" /\ error = "ValueError"
        /\ \A j \in 1..Len(calls) : calls[j].target_lang = target_lang.text

\* strings.xlf without --language: the run failed on the locale.
C9_Witness ==
  /\ args.input_file = StringsXlf /\ ~args.target_lang.present
  /\ pc = "failed" /\ error = "ValueError"

\* C10: the analyzer counts the units with a source text, and the worklist has
\* as many entries as were announced: the untranslated count without force, the
\* total with it.
C10_AnalyzerWorklistAgree ==
  /\ Analyzed =>
       stats.total
         = Cardinality({u \in 1..Len(doc0) :
                          doc0[u].source.present /\ Len(doc0[u].source.text) > 0})
  /\ pc \in {"batch", "done"} =>
       /\ announced = IF args.force THEN stats.total ELSE stats.untranslated
       /\ Len(trans_units) = announced

====
